---- MODULE Spec2Model ----
(***************************************************************************)
(* Real-time device monitoring of givoxxs/baby_posture_analysis:           *)
(* WebSocketHandler.handle_connection (app/services/websocket_service.py), *)
(* DeviceState (app/services/device_state.py) and get_device_thresholds    *)
(* (app/services/notification_service.py).                                 *)
(*                                                                         *)
(* All sessions belong to ONE device id: sessions of different devices     *)
(* share nothing but the two registry dictionaries, whose entries are      *)
(* keyed by device id.  Timestamps are ISO-8601 strings of whole seconds,  *)
(* written as the number of seconds they denote.  The raw labels of the    *)
(* classifier are written in ASCII ("Nam ngua" for "Nằm ngửa", ...).       *)
(***************************************************************************)
EXTENDS Integers, Sequences, FiniteSets, TLC

VARIABLES
    pc,                 \* pc[s]: where handle_connection of session s stands
    ds,                 \* ds[s]: the DeviceState object of session s, or NoState
    devices,            \* WebSocketHandler.devices[device_id]: owning session
    active_connections, \* ConnectionManager.active_connections[device_id]
    store,              \* the Firestore document devices/<device_id>
    clock,              \* the device's clock: the timestamp of its last frame
    nframes,            \* number of inbound messages received so far
    frame,              \* frame[s]: locals of the iteration in progress
    sent,               \* websocket messages sent by the last step
    calls,              \* external collaborator calls made by the last step
    alerts,             \* the notifications alerts so far, in order
    init_read,          \* init_read[s]: outcome of the initial store read
    last,               \* the operation the last step performed
    upd,                \* upd[s]: update_thresholds_from_snapshot in progress
    listeners,          \* FirebaseThresholdListener.listeners has device_id
    threshold_callbacks, \* ....threshold_callbacks has device_id
    current_thresholds, \* ....current_thresholds[device_id], or NoEntry
    sub,                \* the thread that calls add_device_listener
    watch,              \* the store's watch and its snapshot thread
    delivered           \* the thresholds the callback was called with

\* the variables of FirebaseThresholdListener and its threads
lvars == <<listeners, threshold_callbacks, current_thresholds, sub, watch,
           delivered>>

vars == <<pc, ds, devices, active_connections, store, clock, nframes, frame,
          sent, calls, alerts, init_read, last, upd, lvars>>

Sessions == {"s1", "s2"}
NoSession == "none"
NoState == [none |-> TRUE]
NoUpdate == [old |-> NoState, new |-> NoState, next |-> "none"]
NoEntry == [none |-> TRUE]
NoCallback == "none"

\* Python's None for a timestamp, and a key that a dictionary does not hold.
None == -1
Absent == -2

AlertTypes == {"noBlanket", "side", "prone"}

\* ---------------------------------------------------------------- constants
MAX_HISTORY == 5
MAJORITY == 3
COOLDOWN == 20
FILL_PERCENT == 80
DEFAULT_SIDE == 10
DEFAULT_PRONE == 10
DEFAULT_NO_BLANKET == 100
FALLBACK_THRESHOLD == 10

\* ------------------------------------------------------------------- bounds
MaxFrames == 3
MaxFramesRun == 6
MaxFramesCooldown == 4
MaxFramesSync == 6
MaxFramesTeardown == 2
MaxFramesLive == 4
MaxFramesSustain == 4
MaxPending == 2
MaxFramesMatch == 6
MaxFramesTimestamp == 4
MaxFramesRaise == 4
MaxFramesHistory == 5
MaxFramesDisabled == 8
MaxDelivered == 2

\* dict.get(key, default)
DictGet(v, default) == IF v = Absent THEN default ELSE v

\* ------------------------------------------------- notification_service.py
NoDoc == [exists |-> FALSE]

Doc(side, prone, blanket) ==
    [exists |-> TRUE, sideThreshold |-> side, proneThreshold |-> prone,
     noBlanketThreshold |-> blanket]

Thresholds(side, prone, blanket) ==
    [sideThreshold |-> side, proneThreshold |-> prone,
     noBlanketThreshold |-> blanket]

\* get_device_thresholds: the read raises, or finds no document, or finds one.
GetDeviceThresholds(doc, outcome) ==
    IF outcome = "error"
    THEN Thresholds(FALLBACK_THRESHOLD, FALLBACK_THRESHOLD, FALLBACK_THRESHOLD)
    ELSE IF ~doc.exists
    THEN Thresholds(FALLBACK_THRESHOLD, FALLBACK_THRESHOLD, FALLBACK_THRESHOLD)
    ELSE Thresholds(DictGet(doc.sideThreshold, DEFAULT_SIDE),
                    DictGet(doc.proneThreshold, DEFAULT_PRONE),
                    DictGet(doc.noBlanketThreshold, DEFAULT_NO_BLANKET))

\* "if not thresholds": a dictionary is falsy only when it is None or empty.
Falsy(thresholds) == DOMAIN thresholds = {}

\* ------------------------------------------------------------ device_state.py
NewDeviceState(thresholds) ==
    [side_threshold |-> thresholds.sideThreshold,
     prone_threshold |-> thresholds.proneThreshold,
     no_blanket_threshold |-> thresholds.noBlanketThreshold,
     max_history |-> MAX_HISTORY,
     position_baby |-> [position |-> "", count |-> 0,
                        first_time |-> None, last_time |-> None],
     blanket_baby |-> [is_covered |-> TRUE, count |-> 0,
                       first_time |-> None, last_time |-> None],
     posture_history |-> << >>,
     last_notification_time |-> [noBlanket |-> None, side |-> None,
                                 prone |-> None]]

\* Mutant of UpdateThresholds: new thresholds start the position Run afresh.
UpdateThresholdsResetRun(d, new) ==
    [d EXCEPT !.side_threshold = DictGet(new.sideThreshold, @),
              !.prone_threshold = DictGet(new.proneThreshold, @),
              !.no_blanket_threshold = DictGet(new.noBlanketThreshold, @),
              !.position_baby = [position |-> "", count |-> 0,
                                 first_time |-> None, last_time |-> None]]

\* update_thresholds_from_snapshot: a key the snapshot lacks keeps its value.
UpdateThresholds(d, new) ==
    [d EXCEPT !.side_threshold = DictGet(new.sideThreshold, @),
              !.prone_threshold = DictGet(new.proneThreshold, @),
              !.no_blanket_threshold = DictGet(new.noBlanketThreshold, @)]

\* the in-loop assignment of the three thresholds just read
AssignThresholds(d, t) ==
    [d EXCEPT !.side_threshold = DictGet(t.sideThreshold, DEFAULT_SIDE),
              !.prone_threshold = DictGet(t.proneThreshold, DEFAULT_PRONE),
              !.no_blanket_threshold =
                  DictGet(t.noBlanketThreshold, DEFAULT_NO_BLANKET)]

UpdatePositionRun(run, position, timestamp) ==
    IF run.position = position
    THEN [run EXCEPT !.count = @ + 1, !.last_time = timestamp]
    ELSE [position |-> position, count |-> 1,
          first_time |-> timestamp, last_time |-> timestamp]

UpdateBlanketRun(run, is_covered, timestamp) ==
    IF run.is_covered = is_covered
    THEN [run EXCEPT !.count = @ + 1, !.last_time = timestamp]
    ELSE [is_covered |-> is_covered, count |-> 1,
          first_time |-> timestamp, last_time |-> timestamp]

\* calc_time: whole seconds from start_time to end_time, 0 when either is None
CalcTime(start_time, end_time) ==
    IF start_time = None \/ end_time = None THEN 0 ELSE end_time - start_time

\* A timestamp is what the client put into the message: an ISO string,
\* modelled by its second, or a number of Unix seconds, modelled by the
\* integers from UnixTime on.
UnixTime == 1000

IsNumber(timestamp) == timestamp # None /\ timestamp >= UnixTime

\* calc_time hands both arguments to datetime.fromisoformat, which raises
\* TypeError for anything but a string.
CalcTimeRaises(start_time, end_time) ==
    /\ start_time # None
    /\ end_time # None
    /\ IsNumber(start_time) \/ IsNumber(end_time)

\* Mutant of FillGuard: half the threshold is enough evidence.
FillGuardHalf(count, threshold) == count * 100 >= threshold * 50

\* count >= threshold * 80 / 100, in integers
FillGuard(count, threshold) == count * 100 >= threshold * FILL_PERCENT

\* Mutant of Sustained: the time span must exceed the threshold.
SustainedStrict(run, threshold) ==
    /\ FillGuard(run.count, threshold)
    /\ run.last_time # None
    /\ CalcTime(run.first_time, run.last_time) > threshold

Sustained(run, threshold) ==
    /\ FillGuard(run.count, threshold)
    /\ run.last_time # None
    /\ CalcTime(run.first_time, run.last_time) >= threshold

\* the sustained check reaches calc_time (the conditions before it hold) and
\* calc_time raises
SustainedRaises(run, threshold) ==
    /\ FillGuard(run.count, threshold)
    /\ run.last_time # None
    /\ CalcTimeRaises(run.first_time, run.last_time)

CheckPositionRaises(d) ==
    IF d.position_baby.position = "side"
    THEN SustainedRaises(d.position_baby, d.side_threshold)
    ELSE IF d.position_baby.position = "prone"
    THEN SustainedRaises(d.position_baby, d.prone_threshold)
    ELSE FALSE

CheckBlanketRaises(d) ==
    /\ d.no_blanket_threshold # 0
    /\ d.blanket_baby.is_covered = FALSE
    /\ SustainedRaises(d.blanket_baby, d.no_blanket_threshold)

CheckPositionBaby(d) ==
    IF d.position_baby.position = "side"
    THEN Sustained(d.position_baby, d.side_threshold)
    ELSE IF d.position_baby.position = "prone"
    THEN Sustained(d.position_baby, d.prone_threshold)
    ELSE FALSE

CheckBlanketBaby(d) ==
    IF d.no_blanket_threshold = 0 THEN FALSE
    ELSE IF d.blanket_baby.is_covered = FALSE
    THEN Sustained(d.blanket_baby, d.no_blanket_threshold)
    ELSE FALSE

\* ------------------------------------------------------ websocket_service.py
\* ConnectionManager.send_message: sent on the websocket registered for the
\* device id, whichever session registered it; dropped when there is none.
SendMessage(conns, body) ==
    IF conns = NoSession THEN << >> ELSE << [to |-> conns, body |-> body] >>

ErrorMsg(message) == [type |-> "error", message |-> message]

\* posture_map.get(posture, "unknown")
PostureMap(raw) ==
    CASE raw = "Nam ngua" -> "back"
      [] raw = "Nam sap" -> "prone"
      [] raw = "Nam nghieng" -> "side"
      [] OTHER -> "unknown"

\* analysis.get("is_covered", True), then the isinstance(bool) coercion
CoerceBlanket(is_covered) ==
    CASE is_covered = "true" -> TRUE
      [] is_covered = "false" -> FALSE
      [] OTHER -> TRUE

\* Mutant of PushHistory: pop() removes the newest entry, not the oldest.
PushHistoryPopNewest(h, entry, max_history) ==
    LET appended == Append(h, entry)
    IN  IF Len(appended) > max_history
        THEN SubSeq(appended, 1, Len(appended) - 1) ELSE appended

\* posture_history.append(entry); pop(0) when longer than max_history
PushHistory(h, entry, max_history) ==
    LET appended == Append(h, entry)
    IN  IF Len(appended) > max_history THEN Tail(appended) ELSE appended

CountPosture(h, posture) ==
    Cardinality({i \in 1..Len(h) : h[i].posture = posture})

CountBlanket(h, has_blanket) ==
    Cardinality({i \in 1..Len(h) : h[i].has_blanket = has_blanket})

\* Mutant of PositionApplied: two of the five entries are taken as a majority.
PositionAppliedTwo(d, posture) ==
    IF Len(d.posture_history) < d.max_history THEN TRUE
    ELSE CountPosture(d.posture_history, posture) >= MAJORITY - 1

\* Mutant of PositionApplied: the majority is required during warm-up too.
PositionAppliedNoWarmup(d, posture) ==
    CountPosture(d.posture_history, posture) >= MAJORITY

\* lines 176-185: is this frame's posture applied to the position Run?
PositionApplied(d, posture) ==
    IF Len(d.posture_history) < d.max_history THEN TRUE
    ELSE CountPosture(d.posture_history, posture) >= MAJORITY

\* lines 187-198: is this frame's coverage applied to the coverage Run?
BlanketApplied(d, has_blanket) ==
    IF Len(d.posture_history) < d.max_history THEN TRUE
    ELSE CountBlanket(d.posture_history, has_blanket) >= MAJORITY

\* lines 165-198: the effect of one valid frame on the DeviceState
Observe(d, posture, has_blanket, timestamp) ==
    LET d1 == [d EXCEPT !.posture_history =
                   PushHistory(@, [posture |-> posture,
                                   has_blanket |-> has_blanket,
                                   timestamp |-> timestamp], d.max_history)]
        d2 == IF PositionApplied(d1, posture)
              THEN [d1 EXCEPT !.position_baby =
                        UpdatePositionRun(@, posture, timestamp)]
              ELSE d1
    IN  IF BlanketApplied(d2, has_blanket)
        THEN [d2 EXCEPT !.blanket_baby =
                  UpdateBlanketRun(@, has_blanket, timestamp)]
        ELSE d2

\* send_event_to_firestore calls made by the two run updates of one frame
RunEvents(d, e, timestamp) ==
    (IF e.position_baby.position # d.position_baby.position
     THEN << [fn |-> "send_event_to_firestore",
              type |-> e.position_baby.position, time |-> timestamp] >>
     ELSE << >>)
    \o
    (IF e.blanket_baby.is_covered # d.blanket_baby.is_covered
     THEN << [fn |-> "send_event_to_firestore",
              type |-> IF e.blanket_baby.is_covered THEN "blanket"
                       ELSE "noblanket",
              time |-> timestamp] >>
     ELSE << >>)

\* send_notifications: what it writes and pushes.  Without an image URL the
\* body of "if image_url:" is skipped; an exception anywhere (outcome "error":
\* the write to the notifications collection raises) is logged and dropped.
SendNotifications(event_type, duration, start_time, image_url, outcome) ==
    IF image_url = "None" \/ outcome = "error"
    THEN << >>
    ELSE << [fn |-> "notifications.add", type |-> event_type,
             duration |-> duration, time |-> start_time,
             imageUrl |-> image_url],
            [fn |-> "send_fcm_notification", type |-> event_type,
             duration |-> duration, time |-> start_time] >>

\* Mutant of CooldownPassed: any later frame passes, the window is forgotten.
CooldownPassedNoWindow(last_time, timestamp) ==
    last_time = None \/ CalcTime(last_time, timestamp) > 0

\* lines 240-248 and 317-324: may an alert of this type go out at timestamp?
CooldownPassed(last_time, timestamp) ==
    last_time = None \/ CalcTime(last_time, timestamp) > COOLDOWN

NoFrame == [none |-> TRUE]

Lifecycle(p) ==
    CASE p \in {"connect", "get_thresholds"} -> "CONNECTING"
      [] p \in {"recv", "check_position", "position_reread",
                "position_dispatch", "check_blanket", "blanket_reread",
                "blanket_dispatch"} -> "ACTIVE"
      [] p = "cleanup" -> "CLOSING"
      [] OTHER -> "CLOSED"

ThresholdsOf(d) ==
    IF d = NoState THEN NoState
    ELSE Thresholds(d.side_threshold, d.prone_threshold,
                    d.no_blanket_threshold)

Did(op, s) == [op |-> op, s |-> s, old |-> ThresholdsOf(ds[s])]

InitWith(docs) ==
    /\ pc = [s \in Sessions |-> "connect"]
    /\ ds = [s \in Sessions |-> NoState]
    /\ devices = NoSession
    /\ active_connections = NoSession
    /\ store \in docs
    /\ clock = 0
    /\ nframes = 0
    /\ frame = [s \in Sessions |-> NoFrame]
    /\ sent = << >>
    /\ calls = << >>
    /\ alerts = << >>
    /\ init_read = [s \in Sessions |-> "none"]
    /\ last = [op |-> "Init", s |-> NoSession, old |-> NoState]
    /\ upd = [s \in Sessions |-> NoUpdate]
    /\ listeners = FALSE
    /\ threshold_callbacks = NoCallback
    /\ current_thresholds = NoEntry
    /\ sub = [pc |-> "idle", initial_thresholds |-> NoEntry,
              callback |-> NoCallback]
    /\ watch = [open |-> FALSE, queue |-> << >>, new_thresholds |-> NoEntry]
    /\ delivered = << >>

\* ConnectionManager.connect: accept, then register the websocket.
Accept(s) ==
    /\ UNCHANGED <<upd, lvars>>
    /\ pc[s] = "connect"
    /\ pc' = [pc EXCEPT ![s] = "get_thresholds"]
    /\ active_connections' = s
    /\ sent' = << >>
    /\ calls' = << >>
    /\ last' = Did("Accept", s)
    /\ UNCHANGED <<ds, devices, store, clock, nframes, frame, alerts,
                   init_read>>

\* the finally block: del self.devices[device_id]; manager.disconnect
CleanupRegistry ==
    /\ devices' = NoSession
    /\ active_connections' = NoSession

\* The client goes away during the handshake: accept raises, the outer
\* handlers run (an error message for anything but WebSocketDisconnect),
\* then the finally block.
HandshakeFail(s, exc) ==
    /\ UNCHANGED <<upd, lvars>>
    /\ pc[s] = "connect"
    /\ pc' = [pc EXCEPT ![s] = "done"]
    /\ sent' = IF exc = "WebSocketDisconnect" THEN << >>
               ELSE SendMessage(active_connections,
                                ErrorMsg("WebSocket connection error"))
    /\ CleanupRegistry
    /\ calls' = << >>
    /\ last' = Did("HandshakeFail", s)
    /\ UNCHANGED <<ds, store, clock, nframes, frame, alerts, init_read>>

\* lines 64-77: the initial read of the thresholds, then the DeviceState;
\* max_history is int(os.getenv("MAX_HISTORY", 5)) of DeviceState.__init__
GetThresholdsEnv(s, outcome, max_history) ==
    /\ UNCHANGED <<upd, lvars>>
    /\ pc[s] = "get_thresholds"
    /\ LET thresholds == GetDeviceThresholds(store, outcome)
       IN  IF Falsy(thresholds)
           THEN /\ sent' = SendMessage(active_connections,
                         ErrorMsg("Failed to retrieve device thresholds"))
                /\ pc' = [pc EXCEPT ![s] = "done"]
                /\ CleanupRegistry
                /\ ds' = ds
           ELSE /\ sent' = << >>
                /\ pc' = [pc EXCEPT ![s] = "recv"]
                /\ ds' = [ds EXCEPT ![s] =
                             [NewDeviceState(thresholds)
                                  EXCEPT !.max_history = max_history]]
                /\ devices' = s
                /\ active_connections' = active_connections
    /\ init_read' = [init_read EXCEPT ![s] =
                        IF outcome = "error" THEN "error"
                        ELSE IF ~store.exists THEN "absent" ELSE "ok"]
    /\ calls' = << >>
    /\ last' = Did("GetThresholds", s)
    /\ UNCHANGED <<store, clock, nframes, frame, alerts>>

\* the same with MAX_HISTORY not set in the environment
GetThresholds(s, outcome) == GetThresholdsEnv(s, outcome, MAX_HISTORY)

\* lines 81-198: one inbound message, up to the update of the two Runs.
\* res is the classifier's result for the image.
Receive(s, image_base64, timestamp, res) ==
    /\ UNCHANGED <<upd, lvars>>
    /\ pc[s] = "recv"
    /\ nframes' = nframes + 1
    /\ clock' = IF timestamp = None THEN clock ELSE timestamp
    /\ last' = Did("Receive", s)
    /\ UNCHANGED <<devices, active_connections, store, alerts, init_read>>
    /\ IF image_base64 = "" \/ timestamp = None
       THEN /\ sent' = SendMessage(active_connections,
                           ErrorMsg("Missing image_base64 or timestamp"))
            /\ calls' = << >>
            /\ UNCHANGED <<pc, ds, frame>>
       ELSE IF res.success = FALSE
       THEN /\ sent' = SendMessage(active_connections,
                           ErrorMsg("Image analysis failed"))
            /\ calls' = << [fn |-> "analyze_image_base64"] >>
            /\ UNCHANGED <<pc, ds, frame>>
       ELSE IF res.position = ""
       THEN /\ sent' = SendMessage(active_connections,
                           ErrorMsg("No posture detected in the image"))
            /\ calls' = << [fn |-> "analyze_image_base64"] >>
            /\ UNCHANGED <<pc, ds, frame>>
       ELSE IF PostureMap(res.position) = "unknown"
       THEN /\ sent' = SendMessage(active_connections,
                           ErrorMsg("Unknown posture detected"))
            /\ calls' = << [fn |-> "analyze_image_base64"] >>
            /\ UNCHANGED <<pc, ds, frame>>
       ELSE LET posture == PostureMap(res.position)
                has_blanket == CoerceBlanket(res.is_covered)
                d == Observe(ds[s], posture, has_blanket, timestamp)
            IN  /\ sent' = SendMessage(active_connections,
                               [type |-> "analysis", timestamp |-> timestamp,
                                posture |-> posture,
                                has_blanket |-> has_blanket])
                /\ ds' = [ds EXCEPT ![s] = d]
                /\ calls' = << [fn |-> "analyze_image_base64"] >>
                            \o RunEvents(ds[s], d, timestamp)
                /\ frame' = [frame EXCEPT ![s] =
                                [timestamp |-> timestamp, posture |-> posture,
                                 has_blanket |-> has_blanket,
                                 check_position |-> FALSE,
                                 thresholds |-> ThresholdsOf(ds[s])]]
                /\ pc' = [pc EXCEPT ![s] = "check_position"]

\* lines 237-248: the cooldown test of a position alert calls calc_time on
\* last_notification_time and the frame's timestamp, and calc_time raises
PositionCooldownRaises(s) ==
    LET d == ds[s]
        now_position == d.position_baby.position
        threshold == IF now_position = "side" THEN d.side_threshold
                     ELSE IF now_position = "prone" THEN d.prone_threshold
                     ELSE 0
    IN  /\ threshold # 0
        /\ now_position \in {"side", "prone"}
        /\ CalcTimeRaises(d.last_notification_time[now_position],
                          frame[s].timestamp)

\* lines 312-324: the same for the no-blanket alert
BlanketCooldownRaises(s) ==
    /\ ds[s].no_blanket_threshold # 0
    /\ CalcTimeRaises(ds[s].last_notification_time.noBlanket,
                      frame[s].timestamp)

\* lines 200, 283, 240-248, 317-324 and 358-368: calc_time raises TypeError
\* inside a sustained check or a cooldown test; the inner handler sends an
\* error event and the loop goes on with the next message.
CalcTimeError(s) ==
    /\ \/ pc[s] = "check_position" /\ CheckPositionRaises(ds[s])
       \/ pc[s] = "check_blanket" /\ CheckBlanketRaises(ds[s])
       \/ pc[s] = "position_dispatch" /\ PositionCooldownRaises(s)
       \/ pc[s] = "blanket_dispatch" /\ BlanketCooldownRaises(s)
    /\ pc' = [pc EXCEPT ![s] = "recv"]
    /\ frame' = [frame EXCEPT ![s] = NoFrame]
    /\ sent' = SendMessage(active_connections, ErrorMsg("Error processing data"))
    /\ calls' = << >>
    /\ last' = Did("CalcTimeError", s)
    /\ UNCHANGED <<ds, devices, active_connections, store, clock, nframes,
                   alerts, init_read, upd, lvars>>

\* line 200-201
CheckPosition(s) ==
    /\ UNCHANGED <<upd, lvars>>
    /\ pc[s] = "check_position"
    /\ ~CheckPositionRaises(ds[s])
    /\ pc' = [pc EXCEPT ![s] = IF CheckPositionBaby(ds[s])
                               THEN "position_reread" ELSE "check_blanket"]
    /\ sent' = << >>
    /\ calls' = << >>
    /\ frame' = [frame EXCEPT ![s].check_position = CheckPositionBaby(ds[s])]
    /\ last' = Did("CheckPosition", s)
    /\ UNCHANGED <<ds, devices, active_connections, store, clock, nframes,
                   alerts, init_read>>

\* Mutant of PositionReread: the thresholds are read again but the check is
\* not repeated.
PositionRereadNoRecheck(s, outcome) ==
    /\ UNCHANGED <<upd, lvars>>
    /\ pc[s] = "position_reread"
    /\ ds' = [ds EXCEPT ![s] =
                 AssignThresholds(@, GetDeviceThresholds(store, outcome))]
    /\ pc' = [pc EXCEPT ![s] = "position_dispatch"]
    /\ sent' = << >>
    /\ calls' = << [fn |-> "get_device_thresholds"] >>
    /\ last' = Did("PositionReread", s)
    /\ UNCHANGED <<devices, active_connections, store, clock, nframes, frame,
                   alerts, init_read>>

\* lines 206-223: the thresholds are read again and the check repeated
PositionReread(s, outcome) ==
    /\ UNCHANGED <<upd, lvars>>
    /\ pc[s] = "position_reread"
    /\ LET d == AssignThresholds(ds[s], GetDeviceThresholds(store, outcome))
       IN  /\ ds' = [ds EXCEPT ![s] = d]
           /\ pc' = [pc EXCEPT ![s] = IF CheckPositionBaby(d)
                                      THEN "position_dispatch"
                                      ELSE "check_blanket"]
    /\ sent' = << >>
    /\ calls' = << [fn |-> "get_device_thresholds"] >>
    /\ last' = Did("PositionReread", s)
    /\ UNCHANGED <<devices, active_connections, store, clock, nframes, frame,
                   alerts, init_read>>

\* lines 224-277: image_url is what upload_to_cloudinary returns
PositionDispatch(s, image_url, delivery) ==
    /\ UNCHANGED <<upd, lvars>>
    /\ pc[s] = "position_dispatch"
    /\ ~PositionCooldownRaises(s)
    /\ LET d == ds[s]
           now_position == d.position_baby.position
           threshold == IF now_position = "side" THEN d.side_threshold
                        ELSE IF now_position = "prone" THEN d.prone_threshold
                        ELSE 0
           timestamp == frame[s].timestamp
       IN  IF threshold # 0
              /\ CooldownPassed(d.last_notification_time[now_position],
                                timestamp)
           THEN /\ ds' = [ds EXCEPT ![s].last_notification_time[now_position]
                                       = timestamp]
                /\ calls' = << [fn |-> "upload_to_cloudinary"],
                               [fn |-> "send_notifications",
                                type |-> now_position,
                                duration |-> CalcTime(
                                    d.position_baby.first_time,
                                    d.position_baby.last_time),
                                time |-> timestamp,
                                image_url |-> image_url,
                                outcome |-> delivery] >>
                            \o SendNotifications(now_position,
                                   CalcTime(d.position_baby.first_time,
                                            d.position_baby.last_time),
                                   timestamp, image_url, delivery)
                /\ sent' = SendMessage(active_connections,
                               [type |-> "alert", timestamp |-> timestamp,
                                position |-> now_position,
                                image_url |-> image_url])
                /\ alerts' = Append(alerts, [s |-> s, type |-> now_position,
                                          time |-> timestamp])
           ELSE /\ sent' = << >>
                /\ calls' = << >>
                /\ UNCHANGED <<ds, alerts>>
    /\ pc' = [pc EXCEPT ![s] = "check_blanket"]
    /\ last' = Did("PositionDispatch", s)
    /\ UNCHANGED <<devices, active_connections, store, clock, nframes, frame,
                   init_read>>

\* line 283-284
CheckBlanket(s) ==
    /\ UNCHANGED <<upd, lvars>>
    /\ pc[s] = "check_blanket"
    /\ ~CheckBlanketRaises(ds[s])
    /\ IF CheckBlanketBaby(ds[s])
       THEN /\ pc' = [pc EXCEPT ![s] = "blanket_reread"]
            /\ frame' = frame
       ELSE /\ pc' = [pc EXCEPT ![s] = "recv"]
            /\ frame' = [frame EXCEPT ![s] = NoFrame]
    /\ sent' = << >>
    /\ calls' = << >>
    /\ last' = Did("CheckBlanket", s)
    /\ UNCHANGED <<ds, devices, active_connections, store, clock, nframes,
                   alerts, init_read>>

\* lines 289-306
BlanketReread(s, outcome) ==
    /\ UNCHANGED <<upd, lvars>>
    /\ pc[s] = "blanket_reread"
    /\ LET d == AssignThresholds(ds[s], GetDeviceThresholds(store, outcome))
       IN  /\ ds' = [ds EXCEPT ![s] = d]
           /\ IF CheckBlanketBaby(d)
              THEN /\ pc' = [pc EXCEPT ![s] = "blanket_dispatch"]
                   /\ frame' = frame
              ELSE /\ pc' = [pc EXCEPT ![s] = "recv"]
                   /\ frame' = [frame EXCEPT ![s] = NoFrame]
    /\ sent' = << >>
    /\ calls' = << [fn |-> "get_device_thresholds"] >>
    /\ last' = Did("BlanketReread", s)
    /\ UNCHANGED <<devices, active_connections, store, clock, nframes,
                   alerts, init_read>>

\* lines 307-349
BlanketDispatch(s, image_url, delivery) ==
    /\ UNCHANGED <<upd, lvars>>
    /\ pc[s] = "blanket_dispatch"
    /\ ~BlanketCooldownRaises(s)
    /\ LET d == ds[s]
           timestamp == frame[s].timestamp
       IN  IF d.no_blanket_threshold # 0
              /\ CooldownPassed(d.last_notification_time.noBlanket, timestamp)
           THEN /\ ds' = [ds EXCEPT ![s].last_notification_time.noBlanket
                                       = timestamp]
                /\ calls' = << [fn |-> "upload_to_cloudinary"],
                               [fn |-> "send_notifications",
                                type |-> "noblanket",
                                duration |-> CalcTime(
                                    d.blanket_baby.first_time,
                                    d.blanket_baby.last_time),
                                time |-> timestamp,
                                image_url |-> image_url,
                                outcome |-> delivery] >>
                            \o SendNotifications("noblanket",
                                   CalcTime(d.blanket_baby.first_time,
                                            d.blanket_baby.last_time),
                                   timestamp, image_url, delivery)
                /\ sent' = SendMessage(active_connections,
                               [type |-> "alert", timestamp |-> timestamp,
                                position |-> "",
                                image_url |-> image_url])
                /\ alerts' = Append(alerts, [s |-> s, type |-> "noBlanket",
                                          time |-> timestamp])
           ELSE /\ sent' = << >>
                /\ calls' = << >>
                /\ UNCHANGED <<ds, alerts>>
    /\ pc' = [pc EXCEPT ![s] = "recv"]
    /\ frame' = [frame EXCEPT ![s] = NoFrame]
    /\ last' = Did("BlanketDispatch", s)
    /\ UNCHANGED <<devices, active_connections, store, clock, nframes,
                   init_read>>

\* lines 358-368, reached from lines 81-116: receive_json raises something
\* other than WebSocketDisconnect (a message that is no JSON object), or the
\* classifier raises; nothing of the DeviceState has been touched yet.
ReceiveError(s) ==
    /\ pc[s] = "recv"
    /\ nframes' = nframes + 1
    /\ sent' = SendMessage(active_connections, ErrorMsg("Error processing data"))
    /\ calls' = << >>
    /\ last' = Did("ReceiveError", s)
    /\ UNCHANGED <<pc, ds, devices, active_connections, store, clock, frame,
                   alerts, init_read, upd, lvars>>

\* lines 358-368, reached from lines 200-349: a sustained check or a step of
\* the dispatch raises; the rest of the iteration is skipped.
ProcessingError(s) ==
    /\ pc[s] \in {"check_position", "position_reread", "position_dispatch",
                  "check_blanket", "blanket_reread", "blanket_dispatch"}
    /\ pc' = [pc EXCEPT ![s] = "recv"]
    /\ frame' = [frame EXCEPT ![s] = NoFrame]
    /\ sent' = SendMessage(active_connections, ErrorMsg("Error processing data"))
    /\ calls' = << >>
    /\ last' = Did("ProcessingError", s)
    /\ UNCHANGED <<ds, devices, active_connections, store, clock, nframes,
                   alerts, init_read, upd, lvars>>

\* lines 358-381: receive_json raises on a broken connection and the send of
\* the error event raises too, inside the handler of line 358 and again in
\* the handler of line 372: the loop is left for the finally block.
LoopFailure(s) ==
    /\ pc[s] = "recv"
    /\ pc' = [pc EXCEPT ![s] = "cleanup"]
    /\ sent' = << >>
    /\ calls' = << >>
    /\ last' = Did("LoopFailure", s)
    /\ UNCHANGED <<ds, devices, active_connections, store, clock, nframes,
                   frame, alerts, init_read, upd, lvars>>

\* Mutant of Cleanup: the handler goes back to reading messages.
CleanupResumes(s) ==
    /\ UNCHANGED <<upd, lvars>>
    /\ pc[s] = "cleanup"
    /\ pc' = [pc EXCEPT ![s] = "recv"]
    /\ CleanupRegistry
    /\ sent' = << >>
    /\ calls' = << >>
    /\ last' = Did("Cleanup", s)
    /\ UNCHANGED <<ds, store, clock, nframes, frame, alerts, init_read>>

\* lines 355-357: receive_json raises WebSocketDisconnect, the loop is left
Disconnect(s) ==
    /\ UNCHANGED <<upd, lvars>>
    /\ pc[s] = "recv"
    /\ pc' = [pc EXCEPT ![s] = "cleanup"]
    /\ sent' = << >>
    /\ calls' = << >>
    /\ last' = Did("Disconnect", s)
    /\ UNCHANGED <<ds, devices, active_connections, store, clock, nframes,
                   frame, alerts, init_read>>

\* Mutant of Cleanup: the finally block forgets manager.disconnect.
CleanupKeepsConnection(s) ==
    /\ UNCHANGED <<upd, lvars>>
    /\ pc[s] = "cleanup"
    /\ pc' = [pc EXCEPT ![s] = "done"]
    /\ devices' = NoSession
    /\ active_connections' = active_connections
    /\ sent' = << >>
    /\ calls' = << >>
    /\ last' = Did("Cleanup", s)
    /\ UNCHANGED <<ds, store, clock, nframes, frame, alerts, init_read>>

\* lines 382-400: the finally block
Cleanup(s) ==
    /\ UNCHANGED <<upd, lvars>>
    /\ pc[s] = "cleanup"
    /\ pc' = [pc EXCEPT ![s] = "done"]
    /\ CleanupRegistry
    /\ sent' = << >>
    /\ calls' = << >>
    /\ last' = Did("Cleanup", s)
    /\ UNCHANGED <<ds, store, clock, nframes, frame, alerts, init_read>>

\* The document of the device is edited in the store (by the mobile app);
\* an open watch gets a snapshot of the new document.
StoreChange(doc) ==
    /\ doc # store
    /\ store' = doc
    /\ watch' = IF watch.open
                THEN [watch EXCEPT !.queue = Append(@, doc)]
                ELSE watch
    /\ sent' = << >>
    /\ calls' = << >>
    /\ last' = [op |-> "StoreChange", s |-> NoSession, old |-> NoState]
    /\ UNCHANGED <<pc, ds, devices, active_connections, clock, nframes,
                   frame, alerts, init_read, upd, listeners,
                   threshold_callbacks, current_thresholds, sub, delivered>>

\* a snapshot that holds one of the three keys only
OnlyKey(new_thresholds, key) ==
    Thresholds(IF key = "side" THEN new_thresholds.sideThreshold ELSE Absent,
               IF key = "prone" THEN new_thresholds.proneThreshold ELSE Absent,
               IF key = "no_blanket" THEN new_thresholds.noBlanketThreshold
               ELSE Absent)

\* DeviceState.update_thresholds_from_snapshot on a live DeviceState, called
\* from the store's callback thread: its three assignments are separate steps
\* that interleave with the handler's loop.  Lines 44-48: the old values are
\* read and side_threshold is assigned.
UpdateThresholdsFromSnapshot(s, new_thresholds) ==
    /\ Lifecycle(pc[s]) = "ACTIVE"
    /\ upd[s].next \in {"none", "done"}
    /\ ds' = [ds EXCEPT ![s] =
                 UpdateThresholds(@, OnlyKey(new_thresholds, "side"))]
    /\ upd' = [upd EXCEPT ![s] = [old |-> ThresholdsOf(ds[s]),
                                  new |-> new_thresholds, next |-> "prone"]]
    /\ sent' = << >>
    /\ calls' = << >>
    /\ last' = Did("UpdateThresholdsFromSnapshot", s)
    /\ UNCHANGED <<pc, devices, active_connections, store, clock, nframes,
                   frame, alerts, init_read, lvars>>

\* lines 49-51: prone_threshold is assigned
UpdateProneThreshold(s) ==
    /\ upd[s].next = "prone"
    /\ ds' = [ds EXCEPT ![s] =
                 UpdateThresholds(@, OnlyKey(upd[s].new, "prone"))]
    /\ upd' = [upd EXCEPT ![s].next = "no_blanket"]
    /\ sent' = << >>
    /\ calls' = << >>
    /\ last' = Did("UpdateThresholdsFromSnapshot", s)
    /\ UNCHANGED <<pc, devices, active_connections, store, clock, nframes,
                   frame, alerts, init_read, lvars>>

\* lines 52-54: no_blanket_threshold is assigned; the method returns
UpdateNoBlanketThreshold(s) ==
    /\ upd[s].next = "no_blanket"
    /\ ds' = [ds EXCEPT ![s] =
                 UpdateThresholds(@, OnlyKey(upd[s].new, "no_blanket"))]
    /\ upd' = [upd EXCEPT ![s].next = "done"]
    /\ sent' = << >>
    /\ calls' = << >>
    /\ last' = Did("UpdateThresholdsFromSnapshot", s)
    /\ UNCHANGED <<pc, devices, active_connections, store, clock, nframes,
                   frame, alerts, init_read, lvars>>

\* ------------------------------------------- firebase_threshold_listener.py
\* the variables of the connection handler that the listener leaves alone
hvars == <<pc, ds, devices, active_connections, clock, nframes, frame,
           alerts, init_read, upd>>

ListenerDid(op) == [op |-> op, s |-> NoSession, old |-> NoState]

\* lines 38-45 and 77-82: the thresholds of an existing document
SnapshotThresholds(doc) ==
    Thresholds(DictGet(doc.sideThreshold, DEFAULT_SIDE),
               DictGet(doc.proneThreshold, DEFAULT_PRONE),
               DictGet(doc.noBlanketThreshold, DEFAULT_NO_BLANKET))

\* add_device_listener, lines 29-31 and 64-69: nothing to do for a device
\* that has a listener; else on_snapshot is registered, which opens the watch
\* (its first snapshot is the document as it is now), and the watch is put
\* into listeners.  A failing registration is logged.
AddDeviceListener(callback, outcome) ==
    /\ sub.pc = "idle"
    /\ IF listeners \/ outcome = "error"
       THEN /\ sub' = [sub EXCEPT !.callback = callback]
            /\ UNCHANGED <<listeners, watch>>
       ELSE /\ listeners' = TRUE
            /\ watch' = [open |-> TRUE, queue |-> << store >>,
                         new_thresholds |-> NoEntry]
            /\ sub' = [sub EXCEPT !.pc = "set_callback",
                                  !.callback = callback]
    /\ sent' = << >>
    /\ calls' = << >>
    /\ last' = ListenerDid("AddDeviceListener")
    /\ UNCHANGED <<hvars, store, threshold_callbacks, current_thresholds,
                   delivered>>

\* line 70: the callback is registered
SetCallback ==
    /\ sub.pc = "set_callback"
    /\ threshold_callbacks' = sub.callback
    /\ sub' = [sub EXCEPT !.pc = "get"]
    /\ sent' = << >>
    /\ calls' = << >>
    /\ last' = ListenerDid("AddDeviceListener")
    /\ UNCHANGED <<hvars, store, listeners, current_thresholds, watch,
                   delivered>>

\* lines 75-82: the document is read; a failing read ends the method
GetInitial(outcome) ==
    /\ sub.pc = "get"
    /\ IF outcome = "ok" /\ store.exists
       THEN sub' = [sub EXCEPT
                       !.pc = "set_current",
                       !.initial_thresholds = SnapshotThresholds(store)]
       ELSE sub' = [sub EXCEPT !.pc = "idle"]
    /\ sent' = << >>
    /\ calls' = << >>
    /\ last' = ListenerDid("AddDeviceListener")
    /\ UNCHANGED <<hvars, store, listeners, threshold_callbacks,
                   current_thresholds, watch, delivered>>

\* line 83: the cache is set to what was read; the method returns
SetCurrent ==
    /\ sub.pc = "set_current"
    /\ current_thresholds' = sub.initial_thresholds
    /\ sub' = [sub EXCEPT !.pc = "idle", !.initial_thresholds = NoEntry]
    /\ sent' = << >>
    /\ calls' = << >>
    /\ last' = ListenerDid("AddDeviceListener")
    /\ UNCHANGED <<hvars, store, listeners, threshold_callbacks, watch,
                   delivered>>

\* on_snapshot on the watch's thread, lines 36-49: the next snapshot is
\* compared with the cache
OnSnapshot ==
    /\ watch.queue # << >>
    /\ watch.new_thresholds = NoEntry
    /\ LET doc == Head(watch.queue)
       IN  watch' = [watch EXCEPT
                        !.queue = Tail(@),
                        !.new_thresholds =
                            IF doc.exists
                               /\ SnapshotThresholds(doc) # current_thresholds
                            THEN SnapshotThresholds(doc)
                            ELSE NoEntry]
    /\ sent' = << >>
    /\ calls' = << >>
    /\ last' = ListenerDid("OnSnapshot")
    /\ UNCHANGED <<hvars, store, listeners, threshold_callbacks,
                   current_thresholds, sub, delivered>>

\* on_snapshot, lines 54-58: the cache is written and the callback, if there
\* is one, is called
OnSnapshotApply ==
    /\ watch.new_thresholds # NoEntry
    /\ current_thresholds' = watch.new_thresholds
    /\ delivered' = IF threshold_callbacks # NoCallback
                    THEN Append(delivered,
                                [callback |-> threshold_callbacks,
                                 thresholds |-> watch.new_thresholds])
                    ELSE delivered
    /\ watch' = [watch EXCEPT !.new_thresholds = NoEntry]
    /\ sent' = << >>
    /\ calls' = << >>
    /\ last' = ListenerDid("OnSnapshot")
    /\ UNCHANGED <<hvars, store, listeners, threshold_callbacks, sub>>

\* remove_device_listener, lines 97-109: unsubscribe stops the watch and its
\* thread, then the three entries are deleted; when unsubscribe raises, the
\* exception is logged and the entries stay.  sub.callback, the callback of
\* the caller's last add_device_listener, is forgotten.
RemoveDeviceListener(outcome) ==
    /\ sub.pc = "idle"
    /\ IF listeners /\ outcome = "ok"
       THEN /\ watch' = [open |-> FALSE, queue |-> << >>,
                         new_thresholds |-> NoEntry]
            /\ listeners' = FALSE
            /\ threshold_callbacks' = NoCallback
            /\ current_thresholds' = NoEntry
       ELSE UNCHANGED <<watch, listeners, threshold_callbacks,
                        current_thresholds>>
    /\ sent' = << >>
    /\ calls' = << >>
    /\ sub' = [sub EXCEPT !.callback = NoCallback]
    /\ last' = ListenerDid("RemoveDeviceListener")
    /\ UNCHANGED <<hvars, store, delivered>>

\* ------------------------------------------------- send_fcm_notification
\* a key the message dictionary does not have
NoKey == "KeyError"

FcmMessage(title, body, data) == [title |-> title, body |-> body, data |-> data]

\* Mutant of SendFcmNotification: a missing key is replaced by an empty value
\* and the message is sent.
SendFcmNotificationLenient(token, message, provider) ==
    [response |-> IF provider = "raise" THEN "None" ELSE provider,
     calls |-> << [fn |-> "messaging.send", token |-> token,
                   message |-> message, result |-> provider] >>]

\* notification_service.py send_fcm_notification: messaging.Message is built
\* from message["title"], message["body"] and message["data"] (a missing key
\* raises KeyError inside the try), then messaging.send is called; provider
\* is what the send does: it returns a message id or raises.  Every exception
\* is logged and None is returned.
SendFcmNotification(token, message, provider) ==
    IF NoKey \in {message.title, message.body, message.data}
    THEN [response |-> "None", calls |-> << >>]
    ELSE [response |-> IF provider = "raise" THEN "None" ELSE provider,
          calls |-> << [fn |-> "messaging.send", token |-> token,
                        message |-> message, result |-> provider] >>]

\* one call of send_fcm_notification and what it returned
SendFcm(token, message, provider) ==
    /\ LET r == SendFcmNotification(token, message, provider)
       IN  calls' = << [fn |-> "send_fcm_notification", token |-> token,
                        message |-> message, response |-> r.response] >>
                    \o r.calls
    /\ sent' = << >>
    /\ last' = [op |-> "SendFcm", s |-> NoSession, old |-> NoState]
    /\ UNCHANGED <<pc, ds, devices, active_connections, store, clock,
                   nframes, frame, alerts, init_read, upd, lvars>>

\* ------------------------------------------------------------------ inputs
Result(success, position, is_covered) ==
    [success |-> success, position |-> position, is_covered |-> is_covered]

RawLabels == {"Nam ngua", "Nam sap", "Nam nghieng"}

\* classifier results that do not yield a mapped label
BadResults ==
    {Result(FALSE, "", "absent"), Result(TRUE, "", "true"),
     Result(TRUE, "other", "false")}

ValidResults(labels, covers) ==
    {Result(TRUE, p, c) : p \in labels, c \in covers}

ReadOutcomes == {"ok", "error"}
ImageUrls == {"url", "None"}
DeliveryOutcomes == {"ok", "error"}

\* The steps of the loop that follow the receipt of a valid frame.
AfterFrame(s, outcomes, urls, deliveries) ==
    \/ CheckPosition(s)
    \/ \E outcome \in outcomes : PositionReread(s, outcome)
    \/ \E image_url \in urls, delivery \in deliveries :
           PositionDispatch(s, image_url, delivery)
    \/ CheckBlanket(s)
    \/ \E outcome \in outcomes : BlanketReread(s, outcome)
    \/ \E image_url \in urls, delivery \in deliveries :
           BlanketDispatch(s, image_url, delivery)

Connecting(s, outcomes) ==
    \/ Accept(s)
    \/ \E exc \in {"WebSocketDisconnect", "Exception"} : HandshakeFail(s, exc)
    \/ \E outcome \in outcomes : GetThresholds(s, outcome)

Closing(s) ==
    \/ Disconnect(s)
    \/ Cleanup(s)

\* ------------------------------------------------------- the whole program
Message(image_base64, timestamp, res) ==
    [image_base64 |-> image_base64, timestamp |-> timestamp, res |-> res]

\* inbound messages at device time t: one without an image, one without a
\* timestamp, and one complete message for every classifier result
Messages(t, results) ==
    {Message("", t, Result(TRUE, "Nam ngua", "true")),
     Message("img", None, Result(TRUE, "Nam ngua", "true"))}
    \cup {Message("img", t, res) : res \in results}

\* Two connections of the device, every kind of inbound message, and a store
\* document that is missing, unreadable or holds thresholds.
StoreDocs == {NoDoc, Doc(1, 1, 1), Doc(0, Absent, 0)}

Init == InitWith(StoreDocs)

Next ==
    \/ \E s \in Sessions : Connecting(s, ReadOutcomes)
    \/ /\ nframes < MaxFrames
       /\ \E s \in Sessions :
            \E m \in Messages(clock + 1, BadResults \cup
                        {Result(TRUE, "Nam nghieng", "false"),
                         Result(TRUE, "Nam sap", "notbool")}) :
               Receive(s, m.image_base64, m.timestamp, m.res)
    \/ \E s \in Sessions : AfterFrame(s, ReadOutcomes, ImageUrls, DeliveryOutcomes)
    \/ \E s \in Sessions : Closing(s)

Spec == Init /\ [][Next]_vars

\* ------------------------------------------------------ the run tracker
\* One connection, frames one second apart carrying every label and every
\* coverage value, and thresholds that a handful of frames can reach.
RunResults ==
    {Result(TRUE, "other", "false")}
    \cup ValidResults(RawLabels, {"true", "false"})

InitRun == InitWith({Doc(10, 4, 4)})

NextRun ==
    \/ Connecting("s1", {"ok"})
    \/ /\ nframes < MaxFramesRun
       /\ \E res \in RunResults : Receive("s1", "img", clock + 1, res)
    \/ AfterFrame("s1", {"ok"}, {"url"}, {"ok"})
    \/ Closing("s1")

SpecRun == InitRun /\ [][NextRun]_vars

\* ------------------------------------------------------------ the cooldown
\* A device that reconnects once its first connection is closed, frames one
\* or twenty seconds apart that keep an alert condition up, and thresholds of
\* one second.
CooldownResults ==
    {Result(TRUE, "Nam nghieng", "false"), Result(TRUE, "Nam sap", "true"),
     Result(TRUE, "Nam ngua", "true")}

InitCooldown == InitWith({Doc(1, 1, 1)})

NextCooldown ==
    \/ Connecting("s1", {"ok"})
    \/ /\ pc["s1"] = "done"
       /\ Connecting("s2", {"ok"})
    \/ /\ nframes < MaxFramesCooldown
       /\ \E s \in Sessions, delta \in {0, 1, COOLDOWN},
             res \in CooldownResults :
            Receive(s, "img", clock + delta, res)
    \/ \E s \in Sessions : AfterFrame(s, {"ok"}, ImageUrls, {"ok"})
    \/ \E s \in Sessions : Closing(s)

SpecCooldown == InitCooldown /\ [][NextCooldown]_vars

\* --------------------------------------------------- threshold changes
\* One connection whose thresholds change while a Run builds up: the store
\* document is edited, the loop reads it again, and the snapshot callback
\* update_thresholds_from_snapshot is applied to the live DeviceState.
SyncDocs == {Doc(10, 10, 4), Doc(10, 4, 4)}

SyncResults ==
    ValidResults({"Nam sap"}, {"true", "false"})
    \cup {Result(TRUE, "Nam ngua", "true")}

Snapshots == {Thresholds(10, 4, 10), Thresholds(Absent, 4, Absent)}

InitSync == InitWith({Doc(10, 10, 4)})

NextSync ==
    \/ Connecting("s1", {"ok"})
    \/ /\ nframes < MaxFramesSync
       /\ \E res \in SyncResults : Receive("s1", "img", clock + 1, res)
    \/ AfterFrame("s1", {"ok"}, {"url"}, {"ok"})
    \/ Closing("s1")
    \/ \E doc \in SyncDocs : StoreChange(doc)
    \/ /\ upd["s1"].next = "none"
       /\ \E new_thresholds \in Snapshots :
              UpdateThresholdsFromSnapshot("s1", new_thresholds)
    \/ UpdateProneThreshold("s1")
    \/ UpdateNoBlanketThreshold("s1")

SpecSync == InitSync /\ [][NextSync]_vars

\* ------------------------------------------------ errors and teardown
\* Two overlapping connections of the device whose frames can raise at any
\* point of the iteration and whose connections can break; a handler that
\* has left its loop always gets to run its finally block.
TeardownResults == {Result(TRUE, "Nam nghieng", "false")}

InitTeardown == InitWith({Doc(1, 1, 1)})

NextTeardown ==
    \/ \E s \in Sessions : Connecting(s, {"ok"})
    \/ /\ nframes < MaxFramesTeardown
       /\ \E s \in Sessions, res \in TeardownResults :
            Receive(s, "img", clock + 1, res)
    \/ /\ nframes < MaxFramesTeardown
       /\ \E s \in Sessions : ReceiveError(s)
    \/ \E s \in Sessions : AfterFrame(s, {"ok"}, {"url"}, {"ok"})
    \/ \E s \in Sessions : ProcessingError(s)
    \/ \E s \in Sessions : LoopFailure(s)
    \/ \E s \in Sessions : Closing(s)

SpecTeardown ==
    /\ InitTeardown
    /\ [][NextTeardown]_vars
    /\ \A s \in Sessions : WF_vars(Cleanup(s))

\* ------------------------------------------- a store edit during a session
\* One connection; the store document is edited once the session is up and
\* before its first frame arrives; nothing calls
\* update_thresholds_from_snapshot.
LiveDocs == {Doc(2, 2, 2), Doc(2, 1, 1)}

LiveResults ==
    {Result(TRUE, "Nam sap", "false"), Result(TRUE, "Nam ngua", "true")}

InitLive == InitWith({Doc(2, 2, 2)})

NextLive ==
    \/ Connecting("s1", {"ok"})
    \/ /\ nframes < MaxFramesLive
       /\ \E res \in LiveResults : Receive("s1", "img", clock + 1, res)
    \/ AfterFrame("s1", {"ok"}, {"url"}, {"ok"})
    \/ Closing("s1")
    \/ /\ nframes = 0
       /\ pc["s1"] = "recv"
       /\ \E doc \in LiveDocs : StoreChange(doc)

SpecLive == InitLive /\ [][NextLive]_vars

\* ------------------------------------------------- the sustained check
\* One connection whose frames come in bursts (no time between them), one
\* second apart, or after a gap as long as the prone threshold.
SustainResults == ValidResults({"Nam sap", "Nam nghieng"}, {"true", "false"})

SustainGaps == {0, 1, 4}

InitSustain == InitWith({Doc(2, 4, 1)})

NextSustain ==
    \/ Connecting("s1", {"ok"})
    \/ /\ nframes < MaxFramesSustain
       /\ \E res \in SustainResults, gap \in SustainGaps :
            Receive("s1", "img", clock + gap, res)
    \/ AfterFrame("s1", {"ok"}, {"url"}, {"ok"})
    \/ Closing("s1")

SpecSustain == InitSustain /\ [][NextSustain]_vars

\* ------------------------------------------------ the threshold listener
\* One device whose document is edited while a thread subscribes to it and
\* unsubscribes again; the watch delivers its snapshots on its own thread.
ListenerDocs == SyncDocs \cup {Doc(Absent, 10, 4)}

\* the callbacks of two sessions of the device
Callbacks == {"callback_1", "callback_2"}

InitListener == InitWith(ListenerDocs)

NextListener ==
    \/ /\ Len(delivered) < MaxDelivered
       /\ \E callback \in Callbacks, outcome \in ReadOutcomes :
              AddDeviceListener(callback, outcome)
    \/ SetCallback
    \/ \E outcome \in ReadOutcomes : GetInitial(outcome)
    \/ SetCurrent
    \/ OnSnapshot
    \/ OnSnapshotApply
    \/ \E outcome \in ReadOutcomes : RemoveDeviceListener(outcome)
    \/ /\ Len(watch.queue) < MaxPending
       /\ Len(delivered) < MaxDelivered
       /\ \E doc \in ListenerDocs : StoreChange(doc)

SpecListener == InitListener /\ [][NextListener]_vars

\* ------------------------------------------- alerts and their frames
\* One connection with thresholds of one second; the baby lies prone without
\* blanket or on its back under it; frames come a second or a cooldown apart,
\* enough of them to fill the buffer and have the debounce discard one.
MatchResults ==
    {Result(TRUE, "Nam sap", "false"), Result(TRUE, "Nam ngua", "true")}

InitMatch == InitWith({Doc(1, 1, 1)})

NextMatch ==
    \/ Connecting("s1", {"ok"})
    \/ /\ nframes < MaxFramesMatch
       /\ \E delta \in {1, COOLDOWN}, res \in MatchResults :
            Receive("s1", "img", clock + delta, res)
    \/ AfterFrame("s1", {"ok"}, {"url"}, {"ok"})
    \/ Closing("s1")

SpecMatch == InitMatch /\ [][NextMatch]_vars

\* ------------------------------------------------- kinds of timestamps
\* One connection whose messages carry ISO strings a second apart and, from
\* some message on, Unix seconds a second apart; the baby lies on its side
\* without blanket or on its back under it; thresholds of one second.
TimestampResults ==
    {Result(TRUE, "Nam nghieng", "false"), Result(TRUE, "Nam ngua", "true")}

\* the timestamps the next message can carry
NextTimestamps ==
    (IF clock < UnixTime THEN {clock + 1} ELSE {})
    \cup {(IF clock < UnixTime THEN UnixTime ELSE clock) + 1}

InitTimestamp == InitWith({Doc(1, 1, 1)})

NextTimestamp ==
    \/ Connecting("s1", {"ok"})
    \/ /\ nframes < MaxFramesTimestamp
       /\ \E timestamp \in NextTimestamps, res \in TimestampResults :
            Receive("s1", "img", timestamp, res)
    \/ AfterFrame("s1", {"ok"}, {"url"}, {"ok"})
    \/ CalcTimeError("s1")
    \/ Closing("s1")

SpecTimestamp == InitTimestamp /\ [][NextTimestamp]_vars

\* ------------------------------------------------- raised thresholds
\* One connection of a device whose thresholds are raised from one second to
\* three and lowered again at any time; the baby lies prone without blanket
\* or on its back under the blanket, a frame every second.
RaiseDocs == {Doc(1, 1, 1), Doc(3, 3, 3)}

RaiseResults ==
    {Result(TRUE, "Nam sap", "false"), Result(TRUE, "Nam ngua", "true")}

InitRaise == InitWith({Doc(1, 1, 1)})

NextRaise ==
    \/ Connecting("s1", ReadOutcomes)
    \/ /\ nframes < MaxFramesRaise
       /\ \E res \in RaiseResults : Receive("s1", "img", clock + 1, res)
    \/ AfterFrame("s1", ReadOutcomes, {"url"}, {"ok"})
    \/ Closing("s1")
    \/ \E doc \in RaiseDocs : StoreChange(doc)

SpecRaise == InitRaise /\ [][NextRaise]_vars

\* -------------------------------------------------- the size of the buffer
\* One connection under each configured MAX_HISTORY, frames one second
\* apart that carry either of two labels and either coverage value.
ConfiguredMaxHistory == {3, 4, MAX_HISTORY}

HistoryResults == ValidResults({"Nam sap", "Nam nghieng"}, {"true", "false"})

InitHistory == InitWith({Doc(2, 2, 2)})

NextHistory ==
    \/ Accept("s1")
    \/ \E exc \in {"WebSocketDisconnect", "Exception"} :
           HandshakeFail("s1", exc)
    \/ \E max_history \in ConfiguredMaxHistory :
           GetThresholdsEnv("s1", "ok", max_history)
    \/ /\ nframes < MaxFramesHistory
       /\ \E res \in HistoryResults : Receive("s1", "img", clock + 1, res)
    \/ AfterFrame("s1", {"ok"}, {"url"}, {"ok"})
    \/ Closing("s1")

SpecHistory == InitHistory /\ [][NextHistory]_vars

\* ------------------------------------------------- disabled categories
\* One connection of a device whose document disables the side and the
\* no-blanket alerts; the reads of the document may fail; the baby lies on
\* its side, uncovered, for as many frames as the fallback thresholds need.
DisabledGaps == {1, 2}

InitDisabled == InitWith({Doc(0, Absent, 0)})

NextDisabled ==
    \/ Connecting("s1", ReadOutcomes)
    \/ /\ nframes < MaxFramesDisabled
       /\ \E gap \in DisabledGaps :
            Receive("s1", "img", clock + gap,
                    Result(TRUE, "Nam nghieng", "false"))
    \/ AfterFrame("s1", ReadOutcomes, {"url"}, {"ok"})
    \/ Closing("s1")

SpecDisabled == InitDisabled /\ [][NextDisabled]_vars

\* ------------------------------------------------------------ FCM pushes
\* The pushes of send_notifications: a title and a body for each alert type,
\* the data of the notification, the tokens of the device's users, and a
\* provider that accepts the message or raises; messages that lack a key.
FcmTokens == {"token_1", "token_2", "token_3"}
FcmTitles == {"side", "prone", "noblanket", NoKey}
FcmBodies == {"body_1", "body_2", NoKey}
FcmData == {"data_1", "data_2", NoKey}
FcmProvider == {"message_id_1", "message_id_2", "raise"}

InitFcm == InitWith({Doc(10, 10, 100)})

\* The dictionaries send_notifications can hand over: one value or a missing
\* key for each of title, body and data.
FcmMessages ==
    {FcmMessage(title, body, data) :
        title \in FcmTitles, body \in FcmBodies, data \in FcmData}

NextFcm ==
    \E token \in FcmTokens, message \in FcmMessages, provider \in FcmProvider :
        SendFcm(token, message, provider)

SpecFcm == InitFcm /\ [][NextFcm]_vars

\* ================================================================ properties
\* Session s takes a valid frame in this step: the frame is in frame'[s].
ValidFrame(s) == pc[s] = "recv" /\ pc'[s] = "check_position"

Occurrences(h, field, value) ==
    Cardinality({i \in 1..Len(h) : h[i][field] = value})

LastN(h, n) == SubSeq(h, Len(h) - n + 1, Len(h))

Min(a, b) == IF a <= b THEN a ELSE b

\* C5: after every processed frame the history buffer holds at most
\* max_history entries and equals the last min(n, max_history) processed
\* frames in arrival order: a valid frame is appended and, on overflow, exactly
\* the oldest entry leaves; no other step touches the buffer.
C5_HistoryFifo ==
    [][\A s \in Sessions :
        IF ValidFrame(s)
        THEN LET all == Append(ds[s].posture_history,
                               [posture |-> frame'[s].posture,
                                has_blanket |-> frame'[s].has_blanket,
                                timestamp |-> frame'[s].timestamp])
             IN  /\ ds'[s].posture_history =
                        LastN(all, Min(Len(all), MAX_HISTORY))
                 /\ Len(ds'[s].posture_history) <= MAX_HISTORY
        ELSE ds[s] # NoState =>
                 ds'[s].posture_history = ds[s].posture_history]_vars

\* C5 witness: the buffer is full and its first frame has been evicted.
C5_Witness ==
    \E s \in Sessions :
        /\ ds[s] # NoState
        /\ Len(ds[s].posture_history) = MAX_HISTORY
        /\ ds[s].posture_history[1].timestamp > 1

\* C2: once the buffer (the new frame included) is full, a frame changes a
\* Run only if its label is in at least 3 of the 5 buffered observations; a
\* frame whose label is in fewer (a single outlier) leaves the Run as it is.
\* The position Run and the coverage Run each follow the rule on their own.
C2_Debounce ==
    [][\A s \in Sessions :
        (ValidFrame(s) /\ Len(ds'[s].posture_history) = MAX_HISTORY) =>
            LET h == ds'[s].posture_history
                np == Occurrences(h, "posture", frame'[s].posture)
                nb == Occurrences(h, "has_blanket", frame'[s].has_blanket)
            IN  /\ ds'[s].position_baby # ds[s].position_baby => np >= 3
                /\ np < 3 => ds'[s].position_baby = ds[s].position_baby
                /\ ds'[s].blanket_baby # ds[s].blanket_baby => nb >= 3
                /\ nb < 3 => ds'[s].blanket_baby = ds[s].blanket_baby]_vars

\* C2 witness: a single outlier frame has just been discarded with a full
\* buffer, while its coverage value was applied.
C2_Witness ==
    \E s \in Sessions :
        /\ pc[s] = "check_position"
        /\ Len(ds[s].posture_history) = MAX_HISTORY
        /\ Occurrences(ds[s].posture_history, "posture", frame[s].posture) = 1
        /\ ds[s].position_baby.position # frame[s].posture
        /\ ds[s].position_baby.last_time < frame[s].timestamp
        /\ ds[s].blanket_baby.last_time = frame[s].timestamp

\* What step 4 of observe makes of a Run: same label, one more observation;
\* another label, a fresh Run.
Applied(run, key, label, timestamp) ==
    IF run[key] = label
    THEN [run EXCEPT !.count = run.count + 1, !.last_time = timestamp]
    ELSE [run EXCEPT ![key] = label, !.count = 1, !.first_time = timestamp,
                     !.last_time = timestamp]

\* C8: while the buffer, the new frame included, holds fewer than
\* max_history entries, every valid frame is applied to both Runs at once.
C8_WarmUp ==
    [][\A s \in Sessions :
        (ValidFrame(s) /\ Len(ds'[s].posture_history) < MAX_HISTORY) =>
            /\ ds'[s].position_baby =
                   Applied(ds[s].position_baby, "position",
                           frame'[s].posture, frame'[s].timestamp)
            /\ ds'[s].blanket_baby =
                   Applied(ds[s].blanket_baby, "is_covered",
                           frame'[s].has_blanket, frame'[s].timestamp)]_vars

\* C8 witness: during warm-up a label seen once in the buffer has replaced
\* the Run.
C8_Witness ==
    \E s \in Sessions :
        /\ pc[s] = "check_position"
        /\ Len(ds[s].posture_history) \in 2..(MAX_HISTORY - 1)
        /\ Occurrences(ds[s].posture_history, "posture", frame[s].posture) = 1
        /\ ds[s].position_baby.position = frame[s].posture
        /\ ds[s].position_baby.count = 1
        /\ ds[s].position_baby.first_time = frame[s].timestamp

\* The session is fresh and has taken exactly k frames, all prone, one second
\* apart.
PronePrefix(s, k) ==
    /\ ds[s] # NoState
    /\ nframes = k
    /\ Len(ds[s].posture_history) = k
    /\ \A i \in 1..k :
          /\ ds[s].posture_history[i].posture = "prone"
          /\ ds[s].posture_history[i].timestamp =
                 ds[s].posture_history[1].timestamp + (i - 1)

\* C7: with prone threshold 4, the prone check of a fresh session fed prone
\* frames one second apart is false on the first three frames and true on the
\* fifth; and a true prone check stays true on every later step that neither
\* replaces the Run nor changes the threshold.
C7_ProneScenario ==
    [][\A s \in Sessions :
        /\ (pc[s] = "check_position" /\ pc'[s] # pc[s]
            /\ ds[s].prone_threshold = 4) =>
               /\ \A k \in 1..3 : PronePrefix(s, k) => pc'[s] = "check_blanket"
               /\ PronePrefix(s, 5) => pc'[s] = "position_reread"
        /\ (/\ ds[s] # NoState
            /\ ds[s].position_baby.position = "prone"
            /\ CheckPositionBaby(ds[s])
            /\ ds'[s].position_baby.position = "prone"
            /\ ds'[s].position_baby.first_time = ds[s].position_baby.first_time
            /\ ds'[s].prone_threshold = ds[s].prone_threshold) =>
               CheckPositionBaby(ds'[s])]_vars

\* C7 witness: the check has just come out true on the fifth prone frame.
C7_Witness ==
    \E s \in Sessions :
        /\ PronePrefix(s, 5)
        /\ ds[s].prone_threshold = 4
        /\ pc[s] = "position_reread"

\* C1 as claimed: over all sessions of the device, two dispatched alerts of
\* one type are never less than COOLDOWN seconds of frame time apart.
C1_CooldownAcrossSessions ==
    \A i, j \in 1..Len(alerts) :
        (i < j /\ alerts[i].type = alerts[j].type) =>
            alerts[j].time - alerts[i].time >= COOLDOWN

\* C1 as amended: within one session, two dispatched alerts of one type are
\* never less than COOLDOWN seconds of frame time apart.
C1_CooldownWithinSession ==
    \A i, j \in 1..Len(alerts) :
        (i < j /\ alerts[i].type = alerts[j].type
               /\ alerts[i].s = alerts[j].s) =>
            alerts[j].time - alerts[i].time >= COOLDOWN

\* C1 witness: a session has dispatched a second alert of a type, and a
\* sustained frame in between was suppressed.
C1_Witness ==
    \E i, j \in 1..Len(alerts) :
        /\ i < j
        /\ alerts[i].type = alerts[j].type
        /\ alerts[i].s = alerts[j].s
        /\ nframes >= 4

\* C3: with a category's threshold at 0 the sustained predicate of that
\* category is false for every Run.
C3_ThresholdZeroDisables ==
    \A s \in Sessions :
        ds[s] # NoState =>
            /\ (ds[s].position_baby.position = "side"
                /\ ds[s].side_threshold = 0) => ~CheckPositionBaby(ds[s])
            /\ (ds[s].position_baby.position = "prone"
                /\ ds[s].prone_threshold = 0) => ~CheckPositionBaby(ds[s])
            /\ ds[s].no_blanket_threshold = 0 => ~CheckBlanketBaby(ds[s])

\* The step applies thresholds to the DeviceState of session s.
ThresholdStep(s) ==
    /\ last'.s = s
    /\ last'.op \in {"PositionReread", "BlanketReread",
                     "UpdateThresholdsFromSnapshot"}

\* A prone Run of six observations spanning at least four seconds.
SixProne(run) ==
    /\ run.position = "prone"
    /\ run.count = 6
    /\ run.last_time - run.first_time >= 4

\* C4: applying new thresholds (the snapshot callback, the in-loop re-read)
\* leaves both Runs, the history buffer and last_notification_time as they
\* are; so when the prone threshold goes from 10 to 4 under a prone Run of six
\* observations spanning four seconds, the sustained check is true at once.
C4_ThresholdChangeKeepsRuns ==
    [][\A s \in Sessions :
        (ThresholdStep(s) /\ ds[s] # NoState) =>
            /\ ds'[s].position_baby = ds[s].position_baby
            /\ ds'[s].blanket_baby = ds[s].blanket_baby
            /\ ds'[s].posture_history = ds[s].posture_history
            /\ ds'[s].last_notification_time = ds[s].last_notification_time
            /\ (/\ ds[s].prone_threshold = 10
                /\ ds'[s].prone_threshold = 4
                /\ SixProne(ds[s].position_baby)) =>
                   CheckPositionBaby(ds'[s])]_vars

\* C4 witness: the loop's own re-read has just lowered the prone threshold
\* from 10 to 4 under a prone Run of six observations, and the check is true.
C4_Witness ==
    \E s \in Sessions :
        /\ last.s = s
        /\ last.op = "BlanketReread"
        /\ last.old.proneThreshold = 10
        /\ ds[s].prone_threshold = 4
        /\ SixProne(ds[s].position_baby)
        /\ CheckPositionBaby(ds[s])

\* Session s takes an inbound message in this step and does not accept it as
\* a frame.
FailedFrame(s) ==
    /\ last'.op = "Receive"
    /\ last'.s = s
    /\ nframes' = nframes + 1
    /\ pc'[s] = "recv"

\* C6: a message without image or timestamp, a failed classification and an
\* absent or unmapped label each give the session's client exactly one error
\* event and leave the session ACTIVE with its DeviceState untouched.
C6_FailedFrameHarmless ==
    [][\A s \in Sessions :
        FailedFrame(s) =>
            /\ Len(sent') = 1
            /\ sent'[1].body.type = "error"
            /\ ds' = ds
            /\ pc' = pc]_vars

LifecycleEdges ==
    {<<"CONNECTING", "ACTIVE">>, <<"ACTIVE", "CLOSING">>,
     <<"CLOSING", "CLOSED">>, <<"CONNECTING", "CLOSED">>}

\* C9: a session only moves CONNECTING -> ACTIVE -> CLOSING -> CLOSED, or
\* CONNECTING -> CLOSED; it takes messages and changes its DeviceState only
\* while ACTIVE, and never leaves CLOSED.
C9_Lifecycle ==
    [][\A s \in Sessions :
        LET from == Lifecycle(pc[s])
            to == Lifecycle(pc'[s])
        IN  /\ from = to \/ <<from, to>> \in LifecycleEdges
            /\ (last'.op = "Receive" /\ last'.s = s /\ nframes' # nframes) =>
                   from = "ACTIVE"
            /\ (ds[s] # NoState /\ ds'[s] # ds[s]) =>
                   (from = "ACTIVE" /\ to = "ACTIVE")
            /\ ds[s] = NoState /\ ds'[s] # NoState =>
                   (from = "CONNECTING" /\ to = "ACTIVE")]_vars

\* C9 witness: a session that took frames has gone through CLOSING and is
\* CLOSED.
C9_Witness ==
    \E s \in Sessions :
        /\ pc[s] = "done"
        /\ last.op = "Cleanup"
        /\ last.s = s
        /\ ds[s] # NoState
        /\ Len(ds[s].posture_history) > 0

\* C10: a session whose initial threshold read failed, or found no
\* thresholds, is CLOSED and has no DeviceState.
C10_FailClosed ==
    \A s \in Sessions :
        init_read[s] \in {"error", "absent"} =>
            (pc[s] = "done" /\ ds[s] = NoState)

\* C11: a store edit made during the session, before its first frame, is in
\* the session's thresholds when the sustained check of its second or any
\* later frame runs.
C11_LiveSync ==
    \A s \in Sessions :
        (pc[s] = "check_position" /\ nframes >= 2) =>
            ThresholdsOf(ds[s]) = GetDeviceThresholds(store, "ok")

\* C12: a session that has left its loop, after a disconnect or after an
\* error that escaped the loop, eventually is CLOSED; and the step that makes
\* a session CLOSED leaves no entry for the device in WebSocketHandler.devices
\* and ConnectionManager.active_connections and no threshold listener.
C12_Teardown ==
    /\ [][\A s \in Sessions :
            (pc[s] # "done" /\ pc'[s] = "done") =>
                /\ devices' = NoSession
                /\ active_connections' = NoSession
                /\ ~listeners']_vars
    /\ \A s \in Sessions : (pc[s] = "cleanup") ~> (pc[s] = "done")

\* C12 witness: a session that processed frames has just been closed, the
\* registry is empty, and the other connection is still in its loop.
C12_Witness ==
    \E s, o \in Sessions :
        /\ pc[s] = "done"
        /\ last.op = "Cleanup"
        /\ last.s = s
        /\ Len(ds[s].posture_history) > 0
        /\ Lifecycle(pc[o]) = "ACTIVE"
        /\ devices = NoSession
        /\ active_connections = NoSession

\* C13: an exception raised while a frame is read or processed, other than
\* a client disconnect, gives the client exactly one error event and leaves
\* the session in its loop, waiting for the next message.
C13_ExceptionSurvived ==
    [][\A s \in Sessions :
        (last'.s = s /\ last'.op \in {"ReceiveError", "ProcessingError"}) =>
            /\ Len(sent') = 1
            /\ sent'[1].body.type = "error"
            /\ pc'[s] = "recv"]_vars

\* Both guards of the claim, written out: count >= 0.8 x threshold and
\* last_time - first_time >= threshold.
BothGuards(run, threshold) ==
    /\ run.count * 10 >= 8 * threshold
    /\ run.last_time - run.first_time >= threshold

\* C14: for a non-zero threshold the sustained predicate of a category is
\* true exactly when the Run carries the category's label, its count is at
\* least 0.8 x threshold and its time span is at least the threshold.
C14_SustainedIff ==
    \A s \in Sessions :
        ds[s] # NoState =>
            LET d == ds[s]
                p == d.position_baby
                b == d.blanket_baby
            IN  /\ (p.position = "side" /\ d.side_threshold # 0) =>
                       (CheckPositionBaby(d) <=>
                            BothGuards(p, d.side_threshold))
                /\ (p.position = "prone" /\ d.prone_threshold # 0) =>
                       (CheckPositionBaby(d) <=>
                            BothGuards(p, d.prone_threshold))
                /\ p.position \notin {"side", "prone"} =>
                       ~CheckPositionBaby(d)
                /\ d.no_blanket_threshold # 0 =>
                       (CheckBlanketBaby(d) <=>
                            (~b.is_covered
                             /\ BothGuards(b, d.no_blanket_threshold)))

\* C14 witness: a prone Run whose span reaches the threshold with too few
\* observations, next to an uncovered Run with enough observations and too
\* short a span; neither is sustained.
C14_Witness ==
    \E s \in Sessions :
        /\ ds[s] # NoState
        /\ ds[s].position_baby.position = "prone"
        /\ ds[s].position_baby.last_time - ds[s].position_baby.first_time
               >= ds[s].prone_threshold
        /\ ds[s].position_baby.count * 10 < 8 * ds[s].prone_threshold
        /\ ~CheckPositionBaby(ds[s])
        /\ ~ds[s].blanket_baby.is_covered
        /\ ds[s].blanket_baby.count * 10 >= 8 * ds[s].no_blanket_threshold
        /\ ds[s].blanket_baby.last_time - ds[s].blanket_baby.first_time
               < ds[s].no_blanket_threshold
        /\ ~CheckBlanketBaby(ds[s])

\* Session s starts a dispatch in this step: the cooldown test passed and the
\* alert went into the log.
Dispatches(s) ==
    /\ last'.s = s
    /\ last'.op \in {"PositionDispatch", "BlanketDispatch"}
    /\ alerts' # alerts

\* C15: when a dispatch starts and the image upload returns no URL or
\* send_notifications fails, the client still gets the alert event and the
\* session stays in its loop.
C15_AlertDespiteFailure ==
    [][\A s \in Sessions :
        (/\ Dispatches(s)
         /\ \/ calls'[2].image_url = "None"
            \/ calls'[2].outcome = "error") =>
            /\ Len(sent') = 1
            /\ sent'[1].body.type = "alert"
            /\ Lifecycle(pc'[s]) = "ACTIVE"]_vars

\* C16: a dispatch whose image upload returned no URL records the
\* notification for the device and pushes it to the users, as it does with a
\* URL, when send_notifications itself does not fail.
C16_NotifiedWithoutImage ==
    [][\A s \in Sessions :
        (/\ Dispatches(s)
         /\ calls'[2].image_url = "None"
         /\ calls'[2].outcome = "ok") =>
            /\ \E i \in 1..Len(calls') : calls'[i].fn = "notifications.add"
            /\ \E i \in 1..Len(calls') :
                   calls'[i].fn = "send_fcm_notification"]_vars

\* The subscription is up and nothing is in flight: add_device_listener has
\* returned and the watch has handed over all its snapshots.
Quiescent ==
    /\ listeners
    /\ threshold_callbacks # NoCallback
    /\ sub.pc = "idle"
    /\ watch.open
    /\ watch.queue = << >>
    /\ watch.new_thresholds = NoEntry

\* C17: once the subscription is up and nothing is in flight, the callback
\* has been called, the last thresholds it was called with are the store's
\* current ones, and so is the listener's cache.
C17_Delivery ==
    Quiescent =>
        /\ Len(delivered) >= 1
        /\ delivered[Len(delivered)].thresholds = SnapshotThresholds(store)
        /\ current_thresholds = SnapshotThresholds(store)

\* C18: remove_device_listener leaves no entry for the device in listeners,
\* threshold_callbacks and current_thresholds, also when unsubscribe fails,
\* and changes nothing for a device without a listener.
C18_RemoveIdempotent ==
    [][last'.op = "RemoveDeviceListener" =>
        /\ ~listeners'
        /\ threshold_callbacks' = NoCallback
        /\ current_thresholds' = NoEntry
        /\ ~listeners => UNCHANGED <<listeners, threshold_callbacks,
                                     current_thresholds, watch>>]_vars

\* the threshold set an update leaves behind: a key the snapshot lacks keeps
\* its old value
CompleteNew(u) ==
    Thresholds(DictGet(u.new.sideThreshold, u.old.sideThreshold),
               DictGet(u.new.proneThreshold, u.old.proneThreshold),
               DictGet(u.new.noBlanketThreshold, u.old.noBlanketThreshold))

\* the results of a frame's two sustained checks under one threshold set
FrameChecks(d, t) ==
    <<CheckPositionBaby(AssignThresholds(d, t)),
      CheckBlanketBaby(AssignThresholds(d, t))>>

\* C19: a frame that started under the old threshold set and whose checks
\* interleave with update_thresholds_from_snapshot gets from its two sustained
\* checks the results of the complete old set or those of the complete new
\* set, never a mix.
C19_AtomicThresholds ==
    [][\A s \in Sessions :
        (/\ last'.s = s
         /\ last'.op = "CheckBlanket"
         /\ upd[s].next # "none"
         /\ upd[s].old = frame[s].thresholds
         /\ frame[s].check_position = FALSE) =>
            <<FALSE, CheckBlanketBaby(ds[s])>> \in
                {FrameChecks(ds[s], upd[s].old),
                 FrameChecks(ds[s], CompleteNew(upd[s]))}]_vars

\* the steps of handle_connection's while loop
LoopOps ==
    {"Receive", "CheckPosition", "PositionReread", "PositionDispatch",
     "CheckBlanket", "BlanketReread", "BlanketDispatch", "ReceiveError",
     "ProcessingError"}

\* C20: with two connections of one device_id, every message a session's step
\* sends goes to that session's own connection, and a session that is ACTIVE
\* has its own connection and its own DeviceState in the registries.
C20_SessionIsolation ==
    /\ \A i \in 1..Len(sent) : last.op \in LoopOps => sent[i].to = last.s
    /\ \A s \in Sessions :
           Lifecycle(pc[s]) = "ACTIVE" =>
               /\ active_connections = s
               /\ devices = s

\* the analysis event of the frame that session s is processing
AnalysisOf(f) ==
    [type |-> "analysis", timestamp |-> f.timestamp, posture |-> f.posture,
     has_blanket |-> f.has_blanket]

\* C21: a frame classified with a mapped label gives exactly one analysis
\* event with the frame's own posture and coverage value, and an alert event
\* of a frame is only sent by a later step of that frame.
C21_AnalysisEcho ==
    [][\A s \in Sessions :
        /\ ValidFrame(s) =>
               /\ Len(sent') = 1
               /\ sent'[1].body = AnalysisOf(frame'[s])
        /\ (Dispatches(s) /\ sent' # << >>) =>
               /\ frame[s] # NoFrame
               /\ sent'[1].body.type = "alert"
               /\ sent'[1].body.timestamp = frame[s].timestamp]_vars

\* the provider's send was called in the step that led to this state
ProviderCalled == Len(calls) = 2 /\ calls[2].fn = "messaging.send"

\* the message has the three keys send_fcm_notification reads
Complete(message) ==
    NoKey \notin {message.title, message.body, message.data}

\* C22: send_fcm_notification always returns: the provider's message id when
\* the send succeeds, None when the send raises, and None without any call of
\* the send when title, body or data is missing.
C22_FcmNeverRaises ==
    last.op = "SendFcm" =>
        /\ ~Complete(calls[1].message) =>
               (calls[1].response = "None" /\ Len(calls) = 1)
        /\ Complete(calls[1].message) =>
               /\ ProviderCalled
               /\ calls[2].token = calls[1].token
               /\ calls[2].message = calls[1].message
               /\ calls[2].result = "raise" => calls[1].response = "None"
               /\ calls[2].result # "raise" =>
                      calls[1].response = calls[2].result

\* C22 witness: a message without data was handed in, None came back and the
\* provider was not called.
C22_Witness ==
    /\ last.op = "SendFcm"
    /\ calls[1].message.data = NoKey
    /\ calls[1].message.title # NoKey
    /\ calls[1].message.body # NoKey
    /\ calls[1].response = "None"
    /\ ~ProviderCalled

\* the store's threshold for an alert type, as a successful read returns it
StoreThreshold(type) ==
    LET t == GetDeviceThresholds(store, "ok")
    IN  CASE type = "side" -> t.sideThreshold
          [] type = "prone" -> t.proneThreshold
          [] OTHER -> t.noBlanketThreshold

\* C23: no alert of a category is dispatched (archival, notification, alert
\* event, last_notification_time) while the store's threshold of that
\* category is 0, whatever the reads of the thresholds return.
C23_DisabledNeverAlerts ==
    [][\A s \in Sessions :
        /\ Dispatches(s) => StoreThreshold(alerts'[Len(alerts')].type) # 0
        /\ (ds[s] # NoState /\ ds'[s] # NoState) =>
               \A type \in AlertTypes :
                   ds'[s].last_notification_time[type]
                       # ds[s].last_notification_time[type]
                   => StoreThreshold(type) # 0]_vars

\* ceil(0.6 x max_history)
MajorityOf(max_history) == (6 * max_history + 9) \div 10

\* C24: under every configured max_history, a frame that finds the buffer
\* full has its label applied to the position Run exactly when the label
\* occurs at least ceil(0.6 x max_history) times in the buffer, and its
\* coverage value applied to the coverage Run by the same rule.
C24_MajorityOfBuffer ==
    [][\A s \in Sessions :
        (ValidFrame(s)
         /\ Len(ds'[s].posture_history) = ds'[s].max_history) =>
            /\ (ds'[s].position_baby.last_time = frame'[s].timestamp)
               <=> (CountPosture(ds'[s].posture_history, frame'[s].posture)
                       >= MajorityOf(ds'[s].max_history))
            /\ (ds'[s].blanket_baby.last_time = frame'[s].timestamp)
               <=> (CountBlanket(ds'[s].posture_history,
                                 frame'[s].has_blanket)
                       >= MajorityOf(ds'[s].max_history))]_vars

\* The step is a dispatch decision of session s for an alert type whose last
\* dispatch was exactly COOLDOWN seconds before the frame.
AtCooldownBoundary(s, op, type) ==
    /\ last'.s = s
    /\ last'.op = op
    /\ ds[s].last_notification_time[type] # None
    /\ frame[s].timestamp - ds[s].last_notification_time[type] = COOLDOWN

\* C25: a frame on which the sustained check is true and whose time is
\* exactly COOLDOWN seconds after the last dispatch of the same alert type
\* results in a dispatch.
C25_CooldownBoundary ==
    [][\A s \in Sessions :
        /\ \A type \in {"side", "prone"} :
               (AtCooldownBoundary(s, "PositionDispatch", type)
                /\ ds[s].position_baby.position = type
                /\ StoreThreshold(type) # 0) =>
                   /\ Len(alerts') = Len(alerts) + 1
                   /\ alerts'[Len(alerts')].type = type
        /\ (AtCooldownBoundary(s, "BlanketDispatch", "noBlanket")
            /\ StoreThreshold("noBlanket") # 0) =>
               /\ Len(alerts') = Len(alerts) + 1
               /\ alerts'[Len(alerts')].type = "noBlanket"]_vars

\* what a read of the store's document can return in this state
ReadableThresholds == {GetDeviceThresholds(store, o) : o \in ReadOutcomes}

\* The step of session s starts no dispatch: nothing is archived, notified or
\* sent, and last_notification_time stays.
NothingDispatched(s) ==
    /\ alerts' = alerts
    /\ sent' = << >>
    /\ \A i \in 1..Len(calls') :
           calls'[i].fn \notin {"upload_to_cloudinary", "send_notifications"}
    /\ ds'[s].last_notification_time = ds[s].last_notification_time

\* a step of session s that is no dispatch archives and notifies nothing,
\* sends no alert event and leaves last_notification_time alone
NothingDispatchedOrEcho(s) ==
    /\ alerts' = alerts
    /\ \A i \in 1..Len(sent') : sent'[i].body.type # "alert"
    /\ \A i \in 1..Len(calls') :
           calls'[i].fn \notin {"upload_to_cloudinary", "send_notifications"}
    /\ ds'[s].last_notification_time = ds[s].last_notification_time

\* C26: the session's thresholds after a re-read are the ones just read; the
\* dispatch goes on exactly when the sustained check holds under them and is
\* cancelled otherwise, with nothing archived, notified or sent and
\* last_notification_time unchanged; and every dispatch is made under
\* thresholds that satisfy the sustained check.
C26_CancelledAfterReread ==
    [][\A s \in Sessions :
        /\ (last'.s = s /\ last'.op = "PositionReread") =>
               /\ ThresholdsOf(ds'[s]) \in ReadableThresholds
               /\ NothingDispatched(s)
               /\ (pc'[s] = "position_dispatch") <=> CheckPositionBaby(ds'[s])
        /\ (last'.s = s /\ last'.op = "BlanketReread") =>
               /\ ThresholdsOf(ds'[s]) \in ReadableThresholds
               /\ NothingDispatched(s)
               /\ (pc'[s] = "blanket_dispatch") <=> CheckBlanketBaby(ds'[s])
        /\ (Dispatches(s) /\ last'.op = "PositionDispatch") =>
               CheckPositionBaby(ds[s])
        /\ (Dispatches(s) /\ last'.op = "BlanketDispatch") =>
               CheckBlanketBaby(ds[s])
        /\ (last'.s = s /\ ~Dispatches(s) /\ ds[s] # NoState
            /\ ds'[s] # NoState) => NothingDispatchedOrEcho(s)]_vars

\* C26 witness: the prone check passed under the session's threshold, the
\* re-read found a higher one, and the frame went on to the blanket check
\* without a dispatch.
C26_Witness ==
    /\ last.op = "PositionReread"
    /\ pc["s1"] = "check_blanket"
    /\ frame["s1"].check_position
    /\ last.old.proneThreshold < ds["s1"].prone_threshold
    /\ ds["s1"].prone_threshold = GetDeviceThresholds(store, "ok").proneThreshold
    /\ ~CheckPositionBaby(ds["s1"])

\* A Run that has absorbed an observation has a count of at least 1 and both
\* times set, the last not before the first.
RunInvariant(run) ==
    (run.count >= 1 \/ run.last_time # None) =>
        /\ run.count >= 1
        /\ run.first_time # None
        /\ run.last_time # None
        /\ run.last_time >= run.first_time

\* C27: in every reachable state the position Run and the coverage Run of a
\* DeviceState satisfy the Run invariant.
C27_RunInvariant ==
    \A s \in Sessions :
        ds[s] # NoState =>
            /\ RunInvariant(ds[s].position_baby)
            /\ RunInvariant(ds[s].blanket_baby)

\* session s is processing a frame whose timestamp is a number
NumericFrame(s) == frame[s] # NoFrame /\ IsNumber(frame[s].timestamp)

\* C28: a message with a numeric timestamp is processed like one with a
\* string timestamp: no step of its frame sends an error event, and when the
\* sustained check holds for its Run the frame goes on to the dispatch path.
C28_NumericTimestamp ==
    [][\A s \in Sessions :
        (last'.s = s /\ NumericFrame(s)) =>
            /\ \A i \in 1..Len(sent') : sent'[i].body.type # "error"
            /\ (pc[s] = "check_position" /\ CheckPositionBaby(ds[s])) =>
                   pc'[s] = "position_reread"
            /\ (pc[s] = "check_blanket" /\ CheckBlanketBaby(ds[s])) =>
                   pc'[s] = "blanket_reread"]_vars

\* C29: a side or prone alert is dispatched on a frame whose own posture is
\* the alert's position and which was applied to the position Run; a
\* no-blanket alert is dispatched on a frame whose own coverage value is
\* uncovered.
C29_AlertMatchesFrame ==
    [][\A s \in Sessions :
        /\ (Dispatches(s) /\ last'.op = "PositionDispatch") =>
               /\ alerts'[Len(alerts')].time = frame[s].timestamp
               /\ alerts'[Len(alerts')].type = frame[s].posture
               /\ ds[s].position_baby.last_time = frame[s].timestamp
        /\ (Dispatches(s) /\ last'.op = "BlanketDispatch") =>
               /\ alerts'[Len(alerts')].time = frame[s].timestamp
               /\ frame[s].has_blanket = FALSE]_vars

\* C30: an open watch of the store is the one in listeners, and once
\* add_device_listener(device, callback) has returned for a device that has a
\* listener, that callback is the registered one and the one called with
\* every change after it.
C30_RegistrationEffective ==
    [][/\ watch'.open => listeners'
       /\ (listeners' /\ sub'.pc = "idle" /\ sub'.callback # NoCallback) =>
              threshold_callbacks' = sub'.callback
       /\ (listeners /\ sub.pc = "idle" /\ sub.callback # NoCallback
           /\ Len(delivered') = Len(delivered) + 1) =>
              delivered'[Len(delivered')].callback = sub.callback]_vars
====
